---- MODULE Spec2Model ----
(***************************************************************************)
(* A model of find.py (class FindMimic): the recursive-descent evaluator   *)
(* of find expressions over a flat token list with one shared cursor, and  *)
(* the traversal (_walk) that drives it in pre-order or post-order over a  *)
(* small directory tree.                                                   *)
(*                                                                         *)
(* A path string is modelled by its components and by whether it ends in   *)
(* a separator, which is all that os.sep counting, os.path.join and        *)
(* os.path.basename depend on.  Python's None is the value None.           *)
(***************************************************************************)
EXTENDS Integers, Sequences, FiniteSets, TLC

VARIABLES
    paths,              \* self.paths: the roots, in command-line order
    expression_tokens,  \* self.expression_tokens after __init__
    pos,                \* self.pos, the shared cursor (0-based)
    prune_paths,        \* self.prune_paths
    options,            \* self.options: depth, mindepth, maxdepth
    fs,                 \* the filesystem: the set of entries that exist
    out,                \* standard output: the paths printed, in order
    cmds,               \* the commands spawned by the -exec family
    errs,               \* number of messages written to stderr
    stdin,              \* "y", "n" or "eof": what input() gets at a prompt
    pc,                 \* position of the run (see the actions)
    ri,                 \* index in paths of the root being walked
    stack,              \* the frames of the os.walk generator
    idx,                \* index of the for loop over files or dirs
    user_expr,          \* history: the expression as given by the user
    expect,             \* history: the kind of run and, for an expression
                        \* built with its truth value, that truth value
    evals,              \* history: root index and path of each evaluation
    last,               \* history: the outcome of the latest evaluation
    probe,              \* history: the outcomes of one parse function called
                        \* in active and in suppressed mode at one cursor
    exit_status         \* process exit status, -1 while running

vars == <<paths, expression_tokens, pos, prune_paths, options, fs, out, cmds,
          errs, stdin, pc, ri, stack, idx, user_expr, expect, evals, last,
          probe, exit_status>>

None == "<None>"

(***************************************************************************)
(* Bounds of the model.                                                    *)
(***************************************************************************)
MaxLen == 3        \* longest raw token stream enumerated by SpecEval
MaxOpt == 2        \* largest finite -mindepth / -maxdepth value tried
MaxParseLen == 3   \* longest raw token stream enumerated by SpecParse
MaxDigits == 2     \* most digits of the N of a -size argument tried by SpecSize

\* float('inf'), the default of options['maxdepth']
Infinity == 1000

(***************************************************************************)
(* Paths.                                                                  *)
(***************************************************************************)
P(comps) == [comps |-> comps, trail |-> FALSE]

PT(comps) == [comps |-> comps, trail |-> TRUE]

\* str.count(os.sep) of a relative path string
count_sep(p) == (Len(p.comps) - 1) + (IF p.trail THEN 1 ELSE 0)

\* os.path.join(root, name) for a relative name
join(root, name) == [comps |-> Append(root.comps, name), trail |-> FALSE]

\* os.path.basename(path): empty after a trailing separator
basename(p) == IF p.trail THEN "" ELSE p.comps[Len(p.comps)]

\* os.path.dirname(path)
dirname(p) == IF p.trail THEN [comps |-> p.comps, trail |-> FALSE]
              ELSE [comps |-> SubSeq(p.comps, 1, Len(p.comps) - 1), trail |-> FALSE]

(***************************************************************************)
(* The directory tree the runs are made on.                                *)
(*   dirA/a.txt   dirA/sub/file   dirA/sub/deep/c.txt   dirA/e/ (empty)    *)
(***************************************************************************)
TreeDirs == { <<"dirA">>, <<"dirA", "sub">>, <<"dirA", "sub", "deep">>,
              <<"dirA", "e">> }

TreeFiles == { <<"dirA", "a.txt">>, <<"dirA", "sub", "file">>,
               <<"dirA", "sub", "deep", "c.txt">> }

Tree == TreeDirs \cup TreeFiles

\* directory order as scandir returns it (fixed in the model)
NameOrder == <<"a.txt", "c.txt", "deep", "dirA", "e", "file", "sub">>

IsPrefix(a, b) == Len(a) <= Len(b) /\ SubSeq(b, 1, Len(a)) = a

\* a is strictly beneath directory b
Beneath(a, b) == Len(b) < Len(a) /\ IsPrefix(b, a)

exists(f, p) == p.comps \in f

isdir(f, p) == p.comps \in f /\ p.comps \in TreeDirs

RECURSIVE SelectNames(_, _, _, _)
SelectNames(f, top, wantDir, k) ==
    IF k > Len(NameOrder) THEN <<>>
    ELSE LET c == Append(top.comps, NameOrder[k])
         IN  (IF c \in f /\ ((c \in TreeDirs) = wantDir)
                THEN <<NameOrder[k]>> ELSE <<>>)
             \o SelectNames(f, top, wantDir, k + 1)

\* the dirs and nondirs lists os.walk builds from scandir(top)
listdirs(f, top) == SelectNames(f, top, TRUE, 1)

listfiles(f, top) == SelectNames(f, top, FALSE, 1)

(***************************************************************************)
(* Registry: the dispatch tables and arities.                              *)
(***************************************************************************)
tests == {"-name", "-iname", "-type", "-empty", "-true", "-false",
          "-size", "-links", "-inum", "-newer", "-anewer", "-cnewer"}

newer_family == {"-newer", "-anewer", "-cnewer"}

actions == {"-print", "-print0", "-ls", "-delete", "-exec", "-ok",
            "-execdir", "-okdir", "-prune", "-quit"}

exec_family == {"-exec", "-ok", "-execdir", "-okdir"}

one_arg_ops == {"-name", "-iname", "-path", "-ipath", "-regex", "-iregex",
                "-type", "-perm", "-user", "-group", "-size", "-mtime",
                "-atime", "-ctime", "-mmin", "-amin", "-cmin", "-links",
                "-inum", "-newer", "-anewer", "-cnewer"}

get_num_args(op) == IF op \in one_arg_ops THEN 1 ELSE 0

\* fnmatch.fnmatch(name, pattern) on the names of the tree
fnmatch(name, pattern) ==
    CASE pattern = "*"     -> TRUE
      [] pattern = "*.txt" -> name \in {"a.txt", "c.txt"}
      [] OTHER             -> name = pattern

\* the tokens of the model that contain the letter d, resp. f
HasLetterD == {"d", "fd", "-delete", "dirA", "deep", "-execdir", "-okdir",
               "dirA/a.txt", "dirA/sub/file", "dirA/sub/deep/c.txt"}

HasLetterF == {"f", "fd", "-false", "file", "dirA/sub/file"}

\* a token used as a file name: the path it names from the working directory
path_of(s) ==
    CASE s = "dirA/a.txt"          -> P(<<"dirA", "a.txt">>)
      [] s = "dirA/sub/file"       -> P(<<"dirA", "sub", "file">>)
      [] s = "dirA/sub/deep/c.txt" -> P(<<"dirA", "sub", "deep", "c.txt">>)
      [] OTHER                     -> P(<<s>>)

\* a token used as a number: its characters.  Every other token of the
\* model has a character that is not a digit where int() needs digits.
chars(s) ==
    CASE s = "0"  -> <<"0">>
      [] s = "1"  -> <<"1">>
      [] s = "2"  -> <<"2">>
      [] s = "+0" -> <<"+", "0">>
      [] s = "+1" -> <<"+", "1">>
      [] s = "-2" -> <<"-", "2">>
      [] s = "1k" -> <<"1", "k">>
      [] OTHER    -> <<"?">>

(***************************************************************************)
(* What os.stat / os.lstat report for the entries of the tree.             *)
(***************************************************************************)
st_size(c) ==
    CASE c = <<"dirA", "a.txt">>                -> 0
      [] c = <<"dirA", "sub", "file">>          -> 513
      [] c = <<"dirA", "sub", "deep", "c.txt">> -> 1024
      [] OTHER                                  -> 4096

\* a file has one link; a directory has two and one for each subdirectory
st_nlink(f, c) ==
    IF c \in TreeDirs
    THEN 2 + Cardinality({d \in f \cap TreeDirs : Len(d) = Len(c) + 1 /\ IsPrefix(c, d)})
    ELSE 1

\* the entries in the order they were last modified
stamp(c) ==
    CASE c = <<"dirA">>                         -> 1
      [] c = <<"dirA", "a.txt">>                -> 2
      [] c = <<"dirA", "sub">>                  -> 3
      [] c = <<"dirA", "sub", "file">>          -> 4
      [] c = <<"dirA", "sub", "deep">>          -> 5
      [] c = <<"dirA", "sub", "deep", "c.txt">> -> 6
      [] OTHER                                  -> 7

st_ino(c) == 100 + stamp(c)

\* st_mtime, st_atime and st_ctime: the entries were last read in the
\* reverse of the order they were last modified, and the status of the
\* directories changed after that of the files
st_time(c, attr) ==
    CASE attr = "st_mtime" -> stamp(c)
      [] attr = "st_atime" -> 8 - stamp(c)
      [] attr = "st_ctime" -> IF c \in TreeDirs THEN 2 ELSE 1

(***************************************************************************)
(* Outcome of a parse function: its value, the cursor, the world it left   *)
(* behind and how it ended: "ok", "error" (ValueError), "crash" (an        *)
(* exception main does not catch: TypeError, IndexError, PermissionError), *)
(* "quit" (sys.exit(0)), "fatal" (sys.exit(1)).                            *)
(* World: fs, prune, out, cmds, errs, stdin and four history fields: inv,   *)
(* the token positions of the actions invoked; ret, those of the actions   *)
(* that returned; sup, the token positions of the operands the caller      *)
(* parsed with evaluate=False; tst, one record for each test function      *)
(* called: its position and token, whether the entry was missing (gone),   *)
(* whether it is a -newer test whose reference file was missing (noref),   *)
(* and the value and the status the call ended with.                       *)
(***************************************************************************)
Res(val, p, w, st) == [val |-> val, pos |-> p, w |-> w, st |-> st]

Invoked(w, at) == [w EXCEPT !.inv = @ \cup {at}]

Returned(w, at) == [w EXCEPT !.ret = @ \cup {at}]

Suppressed(w, from, to) == [w EXCEPT !.sup = @ \cup (from .. (to - 1))]

peek(toks, p) == IF p < Len(toks) THEN toks[p + 1] ELSE None

\* the cursor after _consume() with no expectation
consume(toks, p) == IF peek(toks, p) # None THEN p + 1 ELSE p

(***************************************************************************)
(* Tests.                                                                  *)
(***************************************************************************)
test_name(path, pattern) == fnmatch(basename(path), pattern)

test_type(w, path, type_chars) ==
    IF ~exists(w.fs, path) THEN FALSE
    ELSE \/ (type_chars \in HasLetterD /\ path.comps \in TreeDirs)
         \/ (type_chars \in HasLetterF /\ path.comps \in TreeFiles)

test_empty(w, path) ==
    IF ~exists(w.fs, path) THEN FALSE
    ELSE IF path.comps \in TreeDirs
         THEN ~(\E c \in w.fs : Len(c) = Len(path.comps) + 1 /\ IsPrefix(path.comps, c))
         ELSE path.comps = <<"dirA", "a.txt">>     \* the only zero-length file

(***************************************************************************)
(* Numbers written as strings.  A string is the sequence of its            *)
(* characters; a test that compares numbers returns its value and how it   *)
(* ended ("error" is the ValueError of int()).                             *)
(***************************************************************************)
Digits == <<"0", "1", "2", "3", "4", "5", "6", "7", "8", "9">>

digit_value(ch) == (CHOOSE i \in DOMAIN Digits : Digits[i] = ch) - 1

IsDigits(str) ==
    Len(str) >= 1 /\ \A i \in DOMAIN str : \E k \in DOMAIN Digits : Digits[k] = str[i]

RECURSIVE digits_value(_)
digits_value(str) ==
    IF str = <<>> THEN 0
    ELSE 10 * digits_value(SubSeq(str, 1, Len(str) - 1)) + digit_value(str[Len(str)])

\* int(str): an optional sign, then digits; anything else is a ValueError
py_int(str) ==
    LET signed == Len(str) >= 1 /\ str[1] \in {"+", "-"}
        body   == IF signed THEN Tail(str) ELSE str
    IN  IF ~IsDigits(body) THEN [ok |-> FALSE, n |-> 0]
        ELSE [ok |-> TRUE,
              n  |-> IF signed /\ str[1] = "-" THEN 0 - digits_value(body)
                     ELSE digits_value(body)]

\* str.lstrip('+-')
RECURSIVE lstrip_signs(_)
lstrip_signs(str) ==
    IF str # <<>> /\ str[1] \in {"+", "-"} THEN lstrip_signs(Tail(str)) ELSE str

startswith_sign(str) == str # <<>> /\ str[1] \in {"+", "-"}

compare_num(val, target_str) ==
    LET sign   == IF startswith_sign(target_str) THEN target_str[1] ELSE ""
        target == py_int(IF sign # "" THEN Tail(target_str) ELSE target_str)
    IN  IF ~target.ok THEN [val |-> FALSE, st |-> "error"]
        ELSE [val |-> CASE sign = "+" -> val > target.n
                        [] sign = "-" -> val < target.n
                        [] OTHER      -> val = target.n,
              st  |-> "ok"]

unit_map ==
    [c |-> 1, w |-> 2, k |-> 1024, M |-> 1024 * 1024, G |-> 1024 * 1024 * 1024]

has_unit(size_str) == size_str[Len(size_str)] \in DOMAIN unit_map

\* blocks counted by rounding down
blocks_rounded_down(file_size, multiplier) == file_size \div multiplier

\* line 372: the size in blocks, rounded up
file_blocks(file_size, multiplier) == (file_size + multiplier - 1) \div multiplier

\* _test_size once lstat has given file_size (lines 349-356, 363-376)
size_matches(file_size, size_str) ==
    LET target_val_str == IF has_unit(size_str)
                          THEN SubSeq(size_str, 1, Len(size_str) - 1) ELSE size_str
        multiplier     == IF has_unit(size_str)
                          THEN unit_map[size_str[Len(size_str)]] ELSE 512
        target_blocks  == py_int(lstrip_signs(target_val_str))
        sign           == IF startswith_sign(target_val_str) THEN target_val_str[1] ELSE ""
        blocks         == file_blocks(file_size, multiplier)
    IN  IF ~IsDigits(lstrip_signs(target_val_str)) THEN [val |-> FALSE, st |-> "error"]
        ELSE [val |-> CASE sign = "+" -> blocks > target_blocks.n
                        [] sign = "-" -> blocks < target_blocks.n
                        [] OTHER      -> blocks = target_blocks.n,
              st  |-> "ok"]

test_size(w, path, size_str) ==
    IF size_str = <<>> THEN [val |-> FALSE, st |-> "crash"]     \* size_str[-1]
    ELSE IF ~exists(w.fs, path) THEN [val |-> FALSE, st |-> "ok"]
    ELSE size_matches(st_size(path.comps), size_str)

test_links(w, path, n) ==
    IF ~exists(w.fs, path) THEN [val |-> FALSE, st |-> "ok"]
    ELSE compare_num(st_nlink(w.fs, path.comps), n)

test_inum(w, path, n) ==
    IF ~exists(w.fs, path) THEN [val |-> FALSE, st |-> "ok"]
    ELSE compare_num(st_ino(path.comps), n)

\* a -newer that takes a missing reference file for an older one
test_newer_lenient(w, path, file, attr) ==
    IF ~exists(w.fs, file) \/ ~exists(w.fs, path) THEN [val |-> FALSE, st |-> "ok"]
    ELSE [val |-> st_time(path.comps, attr) > st_time(file.comps, attr), st |-> "ok"]

\* _test_newer: "fatal" is its sys.exit(1); os.stat of the reference file
\* and os.stat of the entry are in the same try block
test_newer(w, path, file, attr) ==
    IF ~exists(w.fs, file) \/ ~exists(w.fs, path) THEN [val |-> FALSE, st |-> "fatal"]
    ELSE [val |-> st_time(path.comps, attr) > st_time(file.comps, attr), st |-> "ok"]

newer_attr(token) ==
    CASE token = "-newer"  -> "st_mtime"
      [] token = "-anewer" -> "st_atime"
      [] token = "-cnewer" -> "st_ctime"

\* test_func(self, path, *args): value and how the call ended
test_func(token, w, path, arg) ==
    CASE token \in {"-name", "-iname"} ->
            IF arg = None THEN [val |-> FALSE, st |-> "crash"]
            ELSE [val |-> test_name(path, arg), st |-> "ok"]
      [] token = "-type" ->
            IF arg = None THEN [val |-> FALSE, st |-> "crash"]
            ELSE [val |-> test_type(w, path, arg), st |-> "ok"]
      [] token = "-empty" -> [val |-> test_empty(w, path), st |-> "ok"]
      [] token = "-size" ->
            IF arg = None THEN [val |-> FALSE, st |-> "crash"]
            ELSE test_size(w, path, chars(arg))
      [] token = "-links" ->
            IF arg = None
            THEN [val |-> FALSE, st |-> IF exists(w.fs, path) THEN "crash" ELSE "ok"]
            ELSE test_links(w, path, chars(arg))
      [] token = "-inum" ->
            IF arg = None
            THEN [val |-> FALSE, st |-> IF exists(w.fs, path) THEN "crash" ELSE "ok"]
            ELSE test_inum(w, path, chars(arg))
      [] token \in newer_family ->
            IF arg = None THEN [val |-> FALSE, st |-> "crash"]
            ELSE test_newer(w, path, path_of(arg), newer_attr(token))
      [] token = "-true"  -> [val |-> TRUE, st |-> "ok"]
      [] token = "-false" -> [val |-> FALSE, st |-> "ok"]

(***************************************************************************)
(* Actions.                                                                *)
(***************************************************************************)
action_print(w, path) == [w EXCEPT !.out = Append(@, path)]

action_ls(w, path) ==
    IF exists(w.fs, path) THEN [w EXCEPT !.out = Append(@, path)] ELSE w

action_delete(w, path) ==
    IF isdir(w.fs, path)
    THEN IF \E c \in w.fs : Beneath(c, path.comps)
         THEN [w EXCEPT !.errs = @ + 1]                    \* rmdir fails
         ELSE [w EXCEPT !.fs = @ \ {path.comps}]
    ELSE IF exists(w.fs, path)
         THEN [w EXCEPT !.fs = @ \ {path.comps}]
         ELSE [w EXCEPT !.errs = @ + 1]                    \* remove fails

replace_braces(parts, s) ==
    [i \in DOMAIN parts |-> IF parts[i] = "{}" THEN s ELSE parts[i]]

\* the commands of the model that name a file of the tree, none of them
\* executable
FileCommands == {"dirA/a.txt", "dirA/sub/file", "dirA/sub/deep/c.txt"}

\* What subprocess.run(cmd, cwd=cwd) raises: "FileNotFoundError" for a
\* working directory '' (the dirname of a path with no separator), for the
\* command nocmd and for a file name that names nothing from the working
\* directory; "PermissionError" for a file that is there and is not
\* executable; "" when the command is started.
spawn_error(w, cmd, is_dir, cwd) ==
    IF is_dir /\ cwd.comps = <<>> THEN "FileNotFoundError"
    ELSE IF cmd[1] = "nocmd" THEN "FileNotFoundError"
    ELSE IF cmd[1] \in FileCommands
    THEN IF ~is_dir /\ exists(w.fs, path_of(cmd[1])) THEN "PermissionError"
         ELSE "FileNotFoundError"
    ELSE ""

\* the world after _action_exec and how the call ended: only
\* FileNotFoundError is caught and reported (line 501)
action_exec(w, path, command_parts, interactive, is_dir) ==
    IF interactive /\ w.stdin # "y" THEN [w |-> w, st |-> "ok"]
    ELSE IF command_parts = <<>> THEN [w |-> w, st |-> "crash"]  \* cmd[0]: IndexError
    ELSE LET cmd == IF is_dir THEN replace_braces(command_parts, basename(path))
                              ELSE replace_braces(command_parts, path)
             exc == spawn_error(w, cmd, is_dir, dirname(path))
         IN  CASE exc = "FileNotFoundError" ->
                     [w |-> [w EXCEPT !.errs = @ + 1], st |-> "ok"]
               [] exc = "PermissionError" -> [w |-> w, st |-> "crash"]
               [] OTHER -> [w |-> [w EXCEPT !.cmds = Append(@, cmd)], st |-> "ok"]

\* a prune action that records nothing
action_prune_forgets(w, path) == w

action_prune(w, path) ==
    IF isdir(w.fs, path) THEN [w EXCEPT !.prune = @ \cup {path}] ELSE w

\* action_func(self, path, ...): the world after it and how it ended
action_func(token, w, path, args) ==
    CASE token \in {"-print", "-print0"} -> [w |-> action_print(w, path), st |-> "ok"]
      [] token = "-ls"      -> [w |-> action_ls(w, path), st |-> "ok"]
      [] token = "-delete"  -> [w |-> action_delete(w, path), st |-> "ok"]
      [] token = "-exec"    -> action_exec(w, path, args, FALSE, FALSE)
      [] token = "-ok"      -> action_exec(w, path, args, TRUE, FALSE)
      [] token = "-execdir" -> action_exec(w, path, args, FALSE, TRUE)
      [] token = "-okdir"   -> action_exec(w, path, args, TRUE, TRUE)
      [] token = "-prune"   -> [w |-> action_prune(w, path), st |-> "ok"]
      [] token = "-quit"    -> [w |-> w, st |-> "quit"]

(***************************************************************************)
(* The recursive-descent evaluator.  Each function returns Res(value,      *)
(* cursor, world, status); a status other than "ok" is an exception or a   *)
(* sys.exit on its way up and is passed on unchanged.                      *)
(***************************************************************************)
\* the world after the test at position at was called with outcome t
Tested(w, at, token, path, arg, t) ==
    [w EXCEPT !.tst = @ \cup
        {[at    |-> at,
          token |-> token,
          gone  |-> ~exists(w.fs, path),
          noref |-> token \in newer_family /\ arg # None /\ ~exists(w.fs, path_of(arg)),
          val   |-> t.val,
          st    |-> t.st]}]

\* index (0-based) of the first ";" at or after p, or -1
RECURSIVE find_terminator(_, _)
find_terminator(toks, p) ==
    IF p >= Len(toks) THEN -1
    ELSE IF toks[p + 1] = ";" THEN p
    ELSE find_terminator(toks, p + 1)

\* a call of one parse function by another: fn names the callee; the
\* arguments a callee does not take are ignored
RECURSIVE call(_, _, _, _, _, _, _)


\* what _parse_primary returns after test_func ended with outcome t
tested(t, q, w, p, token, path, arg) ==
    Res(t.val, q, Tested(w, p, token, path, arg, t), t.st)

\* what _parse_primary returns after action_func ended with outcome a
acted(a, q, p) ==
    Res(TRUE, q, IF a.st = "ok" THEN Returned(a.w, p) ELSE a.w, a.st)

parse_primary(toks, p, path, evaluate, w) ==
    LET token == peek(toks, p)
    IN  IF token = "("
        THEN LET r == call("or_expr", toks, p + 1, path, TRUE, FALSE, w)
             IN  IF r.st # "ok" THEN r
                 ELSE IF peek(toks, r.pos) # ")" THEN Res(FALSE, r.pos, r.w, "error")
                 ELSE Res(r.val, r.pos + 1, r.w, "ok")
        ELSE IF token \in tests
        THEN LET num_args == get_num_args(token)
                 arg == IF num_args = 1 THEN peek(toks, p + 1) ELSE None
                 q   == IF num_args = 1 THEN consume(toks, p + 1) ELSE p + 1
             IN  IF evaluate
                 THEN tested(test_func(token, w, path, arg), q, w, p, token, path, arg)
                 ELSE Res(TRUE, q, w, "ok")
        ELSE IF token \in actions
        THEN IF token \in exec_family
             THEN LET e == find_terminator(toks, p + 1)
                  IN  IF e = -1 THEN Res(FALSE, Len(toks), w, "error")
                      ELSE IF evaluate
                      THEN acted(action_func(token, Invoked(w, p), path,
                                             SubSeq(toks, p + 2, e)), e + 1, p)
                      ELSE Res(TRUE, e + 1, w, "ok")
             ELSE IF evaluate
                  THEN acted(action_func(token, Invoked(w, p), path, <<>>), p + 1, p)
                  ELSE Res(TRUE, p + 1, w, "ok")
        ELSE IF token = None
        THEN Res(TRUE, p, w, "ok")
        ELSE Res(FALSE, p, w, "error")

\* a _parse_not_expr that, when not evaluating, leaves the operand of ! alone
parse_not_expr_lazy(toks, p, path, evaluate, w) ==
    IF peek(toks, p) \in {"!", "-not"}
    THEN IF ~evaluate
         THEN Res(FALSE, p + 1, w, "ok")
         ELSE LET r == call("primary", toks, p + 1, path, TRUE, FALSE, w)
              IN  IF r.st # "ok" THEN r ELSE Res(~r.val, r.pos, r.w, "ok")
    ELSE call("primary", toks, p, path, evaluate, FALSE, w)

parse_not_expr(toks, p, path, evaluate, w) ==
    IF peek(toks, p) \in {"!", "-not"}
    THEN IF ~evaluate
         THEN LET r == call("primary", toks, p + 1, path, FALSE, FALSE, w)
              IN  IF r.st # "ok" THEN r ELSE Res(FALSE, r.pos, r.w, "ok")
         ELSE LET r == call("primary", toks, p + 1, path, TRUE, FALSE, w)
              IN  IF r.st # "ok" THEN r ELSE Res(~r.val, r.pos, r.w, "ok")
    ELSE call("primary", toks, p, path, evaluate, FALSE, w)

\* the while loop of _parse_and_expr, entered with the running value left
and_loop(toks, p, path, evaluate, left, w) ==
    IF peek(toks, p) = None \/ peek(toks, p) \in {"-o", "-or", ")", ","}
    THEN Res(left, p, w, "ok")
    ELSE LET q == IF peek(toks, p) \in {"-a", "-and"} THEN p + 1 ELSE p
         IN  IF ~evaluate \/ ~left
             THEN LET r == call("not_expr", toks, q, path, FALSE, FALSE, w)
                  IN  IF r.st # "ok" THEN Res(r.val, r.pos, Suppressed(r.w, q, r.pos), r.st)
                      ELSE call("and_loop", toks, r.pos, path, evaluate, FALSE,
                                    Suppressed(r.w, q, r.pos))
             ELSE LET r == call("not_expr", toks, q, path, TRUE, FALSE, w)
                  IN  IF r.st # "ok" THEN r
                      ELSE call("and_loop", toks, r.pos, path, evaluate, left /\ r.val, r.w)

parse_and_expr(toks, p, path, evaluate, w) ==
    LET r == call("not_expr", toks, p, path, evaluate, FALSE, w)
    IN  IF r.st # "ok" THEN r
        ELSE call("and_loop", toks, r.pos, path, evaluate, r.val, r.w)

\* the while loop of _parse_or_expr, entered with the running value left
or_loop(toks, p, path, left, w) ==
    IF peek(toks, p) \notin {"-o", "-or"}
    THEN Res(left, p, w, "ok")
    ELSE IF left
         THEN LET r == call("and_expr", toks, p + 1, path, FALSE, FALSE, w)
              IN  IF r.st # "ok"
                  THEN Res(r.val, r.pos, Suppressed(r.w, p + 1, r.pos), r.st)
                  ELSE Res(TRUE, r.pos, Suppressed(r.w, p + 1, r.pos), "ok")
         ELSE LET r == call("and_expr", toks, p + 1, path, TRUE, FALSE, w)
              IN  IF r.st # "ok" THEN r
                  ELSE call("or_loop", toks, r.pos, path, TRUE, left \/ r.val, r.w)

parse_or_expr(toks, p, path, w) ==
    LET r == call("and_expr", toks, p, path, TRUE, FALSE, w)
    IN  IF r.st # "ok" THEN r
        ELSE call("or_loop", toks, r.pos, path, TRUE, r.val, r.w)

call(fn, toks, p, path, evaluate, left, w) ==
    CASE fn = "or_expr"  -> parse_or_expr(toks, p, path, w)
      [] fn = "or_loop"  -> or_loop(toks, p, path, left, w)
      [] fn = "and_expr" -> parse_and_expr(toks, p, path, evaluate, w)
      [] fn = "and_loop" -> and_loop(toks, p, path, evaluate, left, w)
      [] fn = "not_expr" -> parse_not_expr(toks, p, path, evaluate, w)
      [] fn = "primary"  -> parse_primary(toks, p, path, evaluate, w)

\* _evaluate_expression: the cursor is reset, then OrExpr is parsed
evaluate_expression(toks, path, w) ==
    parse_or_expr(toks, 0, path,
                  [w EXCEPT !.inv = {}, !.ret = {}, !.sup = {}, !.tst = {}])

\* __init__: -print is appended when no token is an action
init_tokens(expr) ==
    IF \E i \in DOMAIN expr : expr[i] \in actions THEN expr
    ELSE Append(expr, "-print")

(***************************************************************************)
(* os.walk as a generator.  A frame is one activation of os.walk's         *)
(* recursive helper: the directory, the dirs and files lists it built when *)
(* it scanned the directory (dirs is the list the caller may edit in       *)
(* place) and k, the next element of dirs to descend into.  The innermost  *)
(* frame is the one whose triple was yielded last.                         *)
(***************************************************************************)
new_frame(f, top) ==
    [top |-> top, dirs |-> listdirs(f, top), files |-> listfiles(f, top), k |-> 1]

\* bottom-up: descend from the innermost frame until a triple is yielded
RECURSIVE walk_descend(_, _)
walk_descend(st, f) ==
    LET fr == st[Len(st)]
    IN  IF fr.k > Len(fr.dirs) THEN st
        ELSE LET child == join(fr.top, fr.dirs[fr.k])
                 st1   == [st EXCEPT ![Len(st)].k = @ + 1]
             IN  IF isdir(f, child)
                 THEN walk_descend(Append(st1, new_frame(f, child)), f)
                 ELSE walk_descend(st1, f)          \* scandir fails: ignored

\* top-down: resume after the loop body, up to the next yield
RECURSIVE walk_topdown_next(_, _)
walk_topdown_next(st, f) ==
    IF st = <<>> THEN <<>>
    ELSE LET fr == st[Len(st)]
         IN  IF fr.k > Len(fr.dirs)
             THEN walk_topdown_next(SubSeq(st, 1, Len(st) - 1), f)
             ELSE LET child == join(fr.top, fr.dirs[fr.k])
                      st1   == [st EXCEPT ![Len(st)].k = @ + 1]
                  IN  IF isdir(f, child)
                      THEN Append(st1, new_frame(f, child))
                      ELSE walk_topdown_next(st1, f)

\* the first next() of os.walk(top, topdown)
os_walk_start(top, topdown, f) ==
    IF ~isdir(f, top) THEN <<>>
    ELSE IF topdown THEN <<new_frame(f, top)>>
    ELSE walk_descend(<<new_frame(f, top)>>, f)

\* a generator that goes on top-down whatever it was created for
os_walk_next_topdown(st, topdown, f) == walk_topdown_next(st, f)

\* every later next(); <<>> when the generator is exhausted
os_walk_next(st, topdown, f) ==
    IF topdown THEN walk_topdown_next(st, f)
    ELSE IF Len(st) = 1 THEN <<>>
    ELSE walk_descend(SubSeq(st, 1, Len(st) - 1), f)

(***************************************************************************)
(* The run.                                                                *)
(***************************************************************************)
World == [fs |-> fs, prune |-> prune_paths, out |-> out, cmds |-> cmds,
          errs |-> errs, stdin |-> stdin, inv |-> {}, ret |-> {}, sup |-> {},
          tst |-> {}]

NoEval == [path |-> P(<<>>), val |-> FALSE, st |-> "none", inv |-> {},
           ret |-> {}, sup |-> {}, tst |-> {}]

NoProbe == [active |-> [st |-> "none", pos |-> 0],
            suppressed |-> [st |-> "none", pos |-> 0]]

Frame == stack[Len(stack)]

start_path == paths[ri]

start_level == count_sep(start_path)

current_level == count_sep(Frame.top) - start_level

min_depth == options.mindepth

max_depth == options.maxdepth

\* the effect of one call of _evaluate_expression with outcome r on
\* everything but the position of the run
Evaluated(path, r) ==
    /\ pos' = r.pos
    /\ fs' = r.w.fs
    /\ prune_paths' = r.w.prune
    /\ out' = r.w.out
    /\ cmds' = r.w.cmds
    /\ errs' = IF r.st \in {"error", "crash", "fatal"} THEN r.w.errs + 1 ELSE r.w.errs
    /\ evals' = Append(evals,
          [root |-> ri, path |-> path,
           pruned |-> /\ isdir(fs, path)
                      /\ \E q \in r.w.inv : expression_tokens[q + 1] = "-prune"])
    /\ last' = [path |-> path, val |-> r.val, st |-> r.st, inv |-> r.w.inv,
                ret |-> r.w.ret, sup |-> r.w.sup, tst |-> r.w.tst]
    /\ exit_status' = CASE r.st = "ok"   -> exit_status
                        [] r.st = "quit" -> 0
                        [] OTHER         -> 1
    /\ UNCHANGED <<paths, expression_tokens, options, stdin, user_expr, expect,
                   probe>>

\* a step that evaluates nothing
Skip ==
    UNCHANGED <<paths, expression_tokens, pos, prune_paths, options, fs, out,
                cmds, stdin, user_expr, expect, evals, last, probe>>

\* a run() that gives up at a root that does not exist
RootMissing_aborts ==
    /\ pc = "run" /\ ri <= Len(paths)
    /\ ~exists(fs, start_path)
    /\ errs' = errs + 1
    /\ pc' = "exit"
    /\ exit_status' = 1
    /\ Skip /\ UNCHANGED <<ri, stack, idx>>

\* run(): a root that does not exist is reported and skipped
RootMissing ==
    /\ pc = "run" /\ ri <= Len(paths)
    /\ ~exists(fs, start_path)
    /\ errs' = errs + 1
    /\ ri' = ri + 1
    /\ Skip /\ UNCHANGED <<pc, stack, idx, exit_status>>

\* run() calls _walk(path), which creates the os.walk generator
StartWalk ==
    /\ pc = "run" /\ ri <= Len(paths)
    /\ exists(fs, start_path)
    /\ LET st == os_walk_start(start_path, ~options.depth, fs)
       IN  /\ stack' = st
           /\ IF options.depth
              THEN pc' = (IF st = <<>> THEN "post_start" ELSE "post_files") /\ ri' = ri
              ELSE IF st = <<>> THEN pc' = "run" /\ ri' = ri + 1
                   ELSE pc' = "pre_root" /\ ri' = ri
    /\ idx' = 1
    /\ Skip /\ UNCHANGED <<errs, exit_status>>

\* main(): run() returned
Finish ==
    /\ pc = "run" /\ ri > Len(paths)
    /\ pc' = "done"
    /\ exit_status' = 0
    /\ Skip /\ UNCHANGED <<errs, ri, stack, idx>>

\* the for statement of _walk asks the generator for the next triple
WalkNext ==
    /\ pc = "walk"
    /\ LET st == os_walk_next(stack, ~options.depth, fs)
       IN  /\ stack' = st
           /\ IF st # <<>>
              THEN pc' = (IF options.depth THEN "post_files" ELSE "pre_root") /\ ri' = ri
              ELSE IF options.depth THEN pc' = "post_start" /\ ri' = ri
                   ELSE pc' = "run" /\ ri' = ri + 1
    /\ idx' = 1
    /\ Skip /\ UNCHANGED <<errs, exit_status>>

not_pruned(root, dirs, prune) ==
    SelectSeq(dirs, LAMBDA d : join(root, d) \notin prune)

\* pre-order, lines 133-148: prune filter, the root of this iteration
PreRootEval ==
    /\ pc = "pre_root"
    /\ current_level >= min_depth /\ current_level <= max_depth
    /\ LET root  == Frame.top
           dirs1 == not_pruned(root, Frame.dirs, prune_paths)
           r     == evaluate_expression(expression_tokens, root, World)
       IN  /\ Evaluated(root, r)
           /\ IF r.st # "ok"
              THEN pc' = "exit" /\ stack' = stack
              ELSE IF r.val /\ root \in r.w.prune
                   THEN /\ stack' = [stack EXCEPT ![Len(stack)].dirs = <<>>]
                        /\ pc' = "walk"
                   ELSE /\ stack' = [stack EXCEPT ![Len(stack)].dirs =
                                       IF current_level >= max_depth THEN <<>> ELSE dirs1]
                        /\ pc' = IF current_level < max_depth THEN "pre_files" ELSE "walk"
    /\ idx' = 1 /\ ri' = ri

PreRootSkip ==
    /\ pc = "pre_root"
    /\ ~(current_level >= min_depth /\ current_level <= max_depth)
    /\ stack' = [stack EXCEPT ![Len(stack)].dirs =
                    IF current_level >= max_depth THEN <<>>
                    ELSE not_pruned(Frame.top, Frame.dirs, prune_paths)]
    /\ pc' = IF current_level < max_depth THEN "pre_files" ELSE "walk"
    /\ idx' = 1
    /\ Skip /\ UNCHANGED <<errs, ri, exit_status>>

\* one iteration of a for loop over names that evaluates join(root, name)
EvalChild(names, here) ==
    /\ idx <= Len(names)
    /\ LET path == join(Frame.top, names[idx])
           r    == evaluate_expression(expression_tokens, path, World)
       IN  /\ Evaluated(path, r)
           /\ pc' = IF r.st # "ok" THEN "exit" ELSE here
    /\ idx' = idx + 1
    /\ UNCHANGED <<stack, ri>>

SkipChild(names) ==
    /\ idx <= Len(names)
    /\ idx' = idx + 1
    /\ Skip /\ UNCHANGED <<pc, errs, ri, stack, exit_status>>

EndLoop(names, next) ==
    /\ idx > Len(names)
    /\ pc' = next
    /\ idx' = 1
    /\ Skip /\ UNCHANGED <<errs, ri, stack, exit_status>>

\* pre-order, lines 152-156
PreFileEval ==
    pc = "pre_files" /\ current_level + 1 >= min_depth /\ EvalChild(Frame.files, "pre_files")

PreFileSkip ==
    pc = "pre_files" /\ ~(current_level + 1 >= min_depth) /\ SkipChild(Frame.files)

PreFilesEnd ==
    pc = "pre_files" /\ EndLoop(Frame.files, "pre_dirs")

\* pre-order, lines 157-165
PreDirEval ==
    pc = "pre_dirs" /\ current_level + 1 >= min_depth /\ EvalChild(Frame.dirs, "pre_dirs")

PreDirSkip ==
    pc = "pre_dirs" /\ ~(current_level + 1 >= min_depth) /\ SkipChild(Frame.dirs)

PreDirsEnd ==
    pc = "pre_dirs" /\ EndLoop(Frame.dirs, "walk")

post_files_cond == current_level + 1 >= min_depth /\ current_level < max_depth

post_dirs_cond == current_level >= min_depth /\ current_level < max_depth

\* post-order, lines 111-115
PostFileEval ==
    pc = "post_files" /\ post_files_cond /\ EvalChild(Frame.files, "post_files")

PostFilesEnd ==
    /\ pc = "post_files"
    /\ IF post_files_cond THEN EndLoop(Frame.files, "post_dirs")
       ELSE EndLoop(<<>>, "post_dirs")

\* a loop over the subdirectories that leaves out the pruned ones
PostDirEval_pruning ==
    /\ pc = "post_dirs" /\ post_dirs_cond
    /\ EvalChild(not_pruned(Frame.top, Frame.dirs, prune_paths), "post_dirs")

\* post-order, lines 118-122
PostDirEval ==
    pc = "post_dirs" /\ post_dirs_cond /\ EvalChild(Frame.dirs, "post_dirs")

PostDirsEnd ==
    /\ pc = "post_dirs"
    /\ IF post_dirs_cond THEN EndLoop(Frame.dirs, "walk")
       ELSE EndLoop(<<>>, "walk")

\* post-order, lines 125-127: the start path itself
PostStartEval ==
    /\ pc = "post_start" /\ min_depth = 0
    /\ LET r == evaluate_expression(expression_tokens, start_path, World)
       IN  /\ Evaluated(start_path, r)
           /\ IF r.st # "ok" THEN pc' = "exit" /\ ri' = ri
              ELSE pc' = "run" /\ ri' = ri + 1
    /\ UNCHANGED <<stack, idx>>

PostStartSkip ==
    /\ pc = "post_start" /\ min_depth # 0
    /\ pc' = "run"
    /\ ri' = ri + 1
    /\ Skip /\ UNCHANGED <<errs, stack, idx, exit_status>>

(***************************************************************************)
(* The runs checked: the command lines find.py is started with.            *)
(***************************************************************************)
RootLists ==
    { <<P(<<"dirA">>)>>,
      <<PT(<<"dirA">>)>>,
      <<P(<<"nope">>), P(<<"dirA", "sub">>)>>,
      <<P(<<"dirA", "e">>), P(<<"dirA">>)>>,
      <<P(<<"dirA", "sub">>), P(<<"dirA">>)>>,
      <<P(<<"dirA", "a.txt">>)>> }

Expressions ==
    { <<>>,
      <<"-print">>,
      <<"-name", "sub", "-prune", "-o", "-print">>,
      <<"-name", "sub", "-prune">>,
      <<"-prune", "-false", "-o", "-name", "c.txt", "-print">>,
      <<"!", "-prune">>,
      <<"-false", "-a", "-delete">>,
      <<"-false", "-a", "(", "-print", ")">>,
      <<"-true", "-o", "(", "-prune", ")">>,
      <<"-type", "f", "-name", "*.txt">>,
      <<"-empty", "-type", "f">>,
      <<"-true", "-o", "-false">>,
      <<"-name", "a.txt", "-o", "-name", "sub">>,
      <<"(", "-name", "a.txt", "-o", "-type", "d", "-o", "-false", ")">>,
      <<"!", "(", "-type", "d", "-o", "-name", "file", ")">>,
      <<"-bogus">>,
      <<"-print", "-bogus">>,
      <<"-true", ")">>,
      <<"(", "-true">>,
      <<"-true", "-o", "-true", "-o", "-bogus">>,
      <<"-exec", "echo", "{}">>,
      <<"-type", "d", "-o", "-exec", "echo">>,
      <<"-exec", "echo", "{}", ";">>,
      <<"-name", "file", "-exec", "nocmd", ";", "-print">>,
      <<"-ok", "echo", ";">>,
      <<"-type", "f", "-delete">>,
      <<"-delete", "-print">>,
      <<"-name", "file", "-quit">>,
      <<"-false", "-quit", "-o", "-print">>,
      <<"-print", "-type">>,
      <<"-false", "-a", "(", "-quit", ")">>,
      <<"-type", "d", "-o", "-newer", "missing", "-delete">>,
      <<"-false", "-newer", "missing">>,
      <<"-anewer", "dirA/sub/file">>,
      <<"-cnewer", "dirA", "-o", "-newer">>,
      <<"-type", "f", "-delete", "-newer", "dirA/sub/deep/c.txt">>,
      <<"-type", "f", "-delete", "-size", "+0", "-o", "-print">>,
      <<"-delete", "-inum", "+0", "-o", "-empty", "-o", "-links", "1", "-o", "-print">>,
      <<"-size", "2", "-o", "-links", "+1", "-inum", "-2">>,
      <<"-links", "+1", "-inum", "+1", "-newer", "dirA/a.txt">>,
      <<"-size", "1k", "-o", "-size", "-print">>,
      <<"-name", "file", "-exec", "dirA/a.txt", ";", "-print">>,
      <<"-execdir", "echo", "{}", ";", "-okdir", "nocmd", ";">> }

has_prompt(toks) == \E i \in DOMAIN toks : toks[i] \in {"-ok", "-okdir"}

Init ==
    /\ paths \in RootLists
    /\ user_expr \in Expressions
    /\ expression_tokens = init_tokens(user_expr)
    /\ options \in [depth : BOOLEAN, mindepth : 0 .. MaxOpt,
                    maxdepth : (0 .. MaxOpt) \cup {Infinity}]
    /\ stdin \in (IF has_prompt(user_expr) THEN {"y", "eof"} ELSE {"eof"})
    /\ expect = [kind |-> "run", val |-> FALSE]
    /\ fs = Tree
    /\ pos = 0
    /\ prune_paths = {}
    /\ out = <<>>
    /\ cmds = <<>>
    /\ errs = 0
    /\ pc = "run"
    /\ ri = 1
    /\ stack = <<>>
    /\ idx = 1
    /\ evals = <<>>
    /\ last = NoEval
    /\ probe = NoProbe
    /\ exit_status = -1

Next ==
    \/ RootMissing
    \/ StartWalk
    \/ Finish
    \/ WalkNext
    \/ PreRootEval
    \/ PreRootSkip
    \/ PreFileEval
    \/ PreFileSkip
    \/ PreFilesEnd
    \/ PreDirEval
    \/ PreDirSkip
    \/ PreDirsEnd
    \/ PostFileEval
    \/ PostFilesEnd
    \/ PostDirEval
    \/ PostDirsEnd
    \/ PostStartEval
    \/ PostStartSkip

Spec == Init /\ [][Next]_vars

(***************************************************************************)
(* The evaluator alone: one call of _evaluate_expression on one entry,     *)
(* for every token stream of a bounded family.                             *)
(***************************************************************************)
EvalAlphabet == {"(", ")", "!", "-a", "-o", "-true", "-false", "-print",
                 "-prune", "-quit", "-bogus", "-name", "sub"}

RECURSIVE SeqsUpTo(_, _)
SeqsUpTo(S, n) ==
    IF n = 0 THEN {<<>>}
    ELSE LET shorter == SeqsUpTo(S, n - 1)
         IN  shorter \cup {Append(t, x) : t \in {u \in shorter : Len(u) = n - 1}, x \in S}

EvalEntries == { P(<<"dirA">>), P(<<"dirA", "sub">>), P(<<"dirA", "a.txt">>) }

World0 == [fs |-> Tree, prune |-> {}, out |-> <<>>, cmds |-> <<>>, errs |-> 0,
           stdin |-> "eof", inv |-> {}, ret |-> {}, sup |-> {}, tst |-> {}]

(***************************************************************************)
(* Well-formed expressions, built by the grammar together with their       *)
(* truth value on each entry: a predicate has the value its test function  *)
(* gives, and NOT, AND and OR have their ordinary meaning.                 *)
(***************************************************************************)
Mk(t, v) == [t |-> t, v |-> v]

Pred(token, arg) ==
    Mk(IF arg = None THEN <<token>> ELSE <<token, arg>>,
       [e \in EvalEntries |-> test_func(token, World0, e, arg).val])

Neg(x) == Mk(<<"!">> \o x.t, [e \in EvalEntries |-> ~x.v[e]])

Grp(x) == Mk(<<"(">> \o x.t \o <<")">>, x.v)

Conj(x, op, y) == Mk(x.t \o op \o y.t, [e \in EvalEntries |-> x.v[e] /\ y.v[e]])

Disj(x, y) == Mk(x.t \o <<"-o">> \o y.t, [e \in EvalEntries |-> x.v[e] \/ y.v[e]])

Prim1 == { Pred("-true", None), Pred("-false", None), Pred("-name", "sub"),
           Pred("-type", "d") }

Not1 == Prim1 \cup {Neg(x) : x \in Prim1}

And1 == Not1 \cup {Conj(x, op, y) : x \in Not1, op \in {<<>>, <<"-a">>}, y \in Not1}

\* OR chains of two and of three operands
Or2 == {Disj(x, y) : x \in And1, y \in Not1} \cup {Disj(x, y) : x \in Not1, y \in And1}

Or3 == {Disj(Disj(x, y), z) : x \in Prim1, y \in Prim1, z \in Prim1}

\* parenthesised groups, negated or not, alone or as an AND operand
Prim2 == {Grp(x) : x \in {Disj(a, b) : a \in Prim1, b \in Prim1} \cup Or3}

Not2 == Prim2 \cup {Neg(x) : x \in Prim2}

And2 == {Conj(x, op, y) : x \in Not2, op \in {<<>>, <<"-a">>}, y \in Prim1}
        \cup {Conj(x, op, y) : x \in Prim1, op \in {<<>>, <<"-a">>}, y \in Not2}

WellFormed == And1 \cup Or2 \cup Or3 \cup Not2 \cup And2

\* expressions with actions that return
WithActions == { <<"-print">>, <<"-prune">>, <<"-false", "-print">>,
                 <<"-true", "-o", "-print">>, <<"(", "-print", "-o", "-prune", ")">>,
                 <<"!", "-print">> }

NoValue == [e \in EvalEntries |-> FALSE]

OrExprs == {x.t : x \in WellFormed} \cup WithActions

\* those with no OR outside parentheses: followed by -a -false, the whole
\* of such an expression is the left operand of the AND
AndExprs == {x.t : x \in And1 \cup Not2 \cup And2}
            \cup {<<"-print">>, <<"-prune">>, <<"-false", "-print">>,
                  <<"(", "-print", "-o", "-prune", ")">>, <<"!", "-print">>}

EvalCases ==
    {[t |-> t, kind |-> "raw", v |-> NoValue] : t \in SeqsUpTo(EvalAlphabet, MaxLen)}
    \cup {[t |-> x.t, kind |-> "wf", v |-> x.v] : x \in WellFormed}
    \cup {[t |-> a \o <<"-o", "-true">>, kind |-> "or_true", v |-> NoValue] : a \in OrExprs}
    \cup {[t |-> a \o <<"-a", "-false">>, kind |-> "and_false", v |-> NoValue] : a \in AndExprs}

InitEval ==
    /\ \E c \in EvalCases, e \in EvalEntries :
          /\ user_expr = c.t
          /\ paths = <<e>>
          /\ expect = [kind |-> c.kind, val |-> c.v[e]]
    /\ expression_tokens = user_expr
    /\ options = [depth |-> FALSE, mindepth |-> 0, maxdepth |-> Infinity]
    /\ stdin = "eof"
    /\ fs = Tree
    /\ pos = 0
    /\ prune_paths = {}
    /\ out = <<>>
    /\ cmds = <<>>
    /\ errs = 0
    /\ pc = "eval"
    /\ ri = 1
    /\ stack = <<>>
    /\ idx = 1
    /\ evals = <<>>
    /\ last = NoEval
    /\ probe = NoProbe
    /\ exit_status = -1

\* _evaluate_expression(path) on the entry
EvalEntry ==
    /\ pc = "eval"
    /\ LET r == evaluate_expression(expression_tokens, start_path, World)
       IN  /\ Evaluated(start_path, r)
           /\ pc' = IF r.st = "ok" THEN "evaluated" ELSE "exit"
    /\ UNCHANGED <<ri, stack, idx>>

NextEval == EvalEntry

SpecEval == InitEval /\ [][NextEval]_vars

(***************************************************************************)
(* The parse functions alone: one function called at one cursor position   *)
(* of one token stream, on one entry, in active and in suppressed mode.    *)
(***************************************************************************)
ParseAlphabet == {"(", ")", "!", "-a", "-o", "-true", "-false", "-print",
                  "-name", "-exec", ";"}

\* longer streams: groups with OR chains, alone, negated and as AND
\* operands; actions; a group whose first test depends on a delete before it
ParseStreams ==
    SeqsUpTo(ParseAlphabet, MaxParseLen)
    \cup {x.t : x \in Or3 \cup Not2 \cup And2}
    \cup WithActions
    \cup { <<"-delete", "(", "-empty", "-o", "-true", "-o", "-true", ")">>,
           <<"-false", "-exec", "echo", "{}", ";", "-o", "-print">>,
           <<"!", "-exec", "nocmd", ";", "-print", "-quit">>,
           <<"-name", "sub", "-prune", "-o", "-size", "+0", "-print">>,
           <<"-type", "f", "-newer", "missing", "-o", "(", "-print", ")">> }

ParseFunctions == {"or_expr", "and_expr", "not_expr", "primary"}

InitParse ==
    /\ \E t \in ParseStreams, fn \in ParseFunctions :
          \E at \in 0 .. Len(t) :
              /\ user_expr = t
              /\ expect = [kind |-> "parse", val |-> FALSE, fn |-> fn, at |-> at]
    /\ expression_tokens = user_expr
    /\ paths = <<P(<<"dirA", "a.txt">>)>>
    /\ options = [depth |-> FALSE, mindepth |-> 0, maxdepth |-> Infinity]
    /\ stdin = "eof"
    /\ fs = Tree
    /\ pos = expect.at
    /\ prune_paths = {}
    /\ out = <<>>
    /\ cmds = <<>>
    /\ errs = 0
    /\ pc = "parse"
    /\ ri = 1
    /\ stack = <<>>
    /\ idx = 1
    /\ evals = <<>>
    /\ last = NoEval
    /\ probe = NoProbe
    /\ exit_status = -1

\* the function expect.fn called with the cursor at pos: the state becomes
\* the one the active call leaves, and probe records where and how the
\* active call and the suppressed call (from the same state) ended;
\* _parse_or_expr has no evaluate parameter
ParseBothModes ==
    /\ pc = "parse"
    /\ LET a == call(expect.fn, expression_tokens, pos, start_path, TRUE, FALSE, World)
           s == call(expect.fn, expression_tokens, pos, start_path, FALSE, FALSE, World)
       IN  /\ probe' = [active     |-> [st |-> a.st, pos |-> a.pos],
                        suppressed |-> [st |-> s.st, pos |-> s.pos]]
           /\ pos' = a.pos
           /\ fs' = a.w.fs
           /\ prune_paths' = a.w.prune
           /\ out' = a.w.out
           /\ cmds' = a.w.cmds
           /\ errs' = a.w.errs
           /\ last' = [path |-> start_path, val |-> a.val, st |-> a.st,
                       inv |-> a.w.inv, ret |-> a.w.ret, sup |-> a.w.sup,
                       tst |-> a.w.tst]
    /\ pc' = "parsed"
    /\ UNCHANGED <<paths, expression_tokens, options, stdin, ri, stack, idx,
                   user_expr, expect, evals, exit_status>>

NextParse == ParseBothModes

SpecParse == InitParse /\ [][NextParse]_vars

(***************************************************************************)
(* The -size test alone: _test_size on a file of every size of FileSizes   *)
(* with every argument [+|-]N[unit] of at most MaxDigits digits.           *)
(***************************************************************************)
FileSizes == {0, 1, 2, 3, 4, 511, 512, 513, 1023, 1024, 1025, 1536, 2047, 2048,
              2049, 5120, 5121, 6144, 6145, 1048575, 1048576, 1048577,
              2097152, 1073741823, 1073741824}

SizeSigns == {<<>>, <<"+">>, <<"-">>}

SizeDigits == {"0", "1", "2", "9"}

SizeNumbers == SeqsUpTo(SizeDigits, MaxDigits) \ {<<>>}

SizeUnits == {<<>>, <<"c">>, <<"w">>, <<"k">>, <<"M">>, <<"G">>}

InitSize ==
    /\ \E file_size \in FileSizes, sign \in SizeSigns, number \in SizeNumbers,
          unit \in SizeUnits :
          expect = [kind |-> "size", val |-> FALSE, file_size |-> file_size,
                    sign |-> sign, number |-> number, unit |-> unit,
                    size_str |-> sign \o number \o unit]
    /\ user_expr = <<"-size">>
    /\ expression_tokens = user_expr
    /\ paths = <<P(<<"dirA", "sub", "file">>)>>
    /\ options = [depth |-> FALSE, mindepth |-> 0, maxdepth |-> Infinity]
    /\ stdin = "eof"
    /\ fs = Tree
    /\ pos = 0
    /\ prune_paths = {}
    /\ out = <<>>
    /\ cmds = <<>>
    /\ errs = 0
    /\ pc = "size"
    /\ ri = 1
    /\ stack = <<>>
    /\ idx = 1
    /\ evals = <<>>
    /\ last = NoEval
    /\ probe = NoProbe
    /\ exit_status = -1

\* _test_size(path, size_str) once os.lstat(path).st_size is known
TestSize ==
    /\ pc = "size"
    /\ LET t == size_matches(expect.file_size, expect.size_str)
       IN  last' = [NoEval EXCEPT !.path = start_path, !.val = t.val, !.st = t.st]
    /\ pc' = "sized"
    /\ UNCHANGED <<paths, expression_tokens, pos, prune_paths, options, fs, out,
                   cmds, errs, stdin, ri, stack, idx, user_expr, expect, evals,
                   probe, exit_status>>

NextSize == TestSize

SpecSize == InitSize /\ [][NextSize]_vars

(***************************************************************************)
(* Properties.                                                             *)
(***************************************************************************)
\* C1: in every evaluation of an entry, no action is invoked at a token
\* position that lies in an operand the evaluator short-circuited (parsed
\* with evaluate=False): the invoked positions and the suppressed positions
\* of the latest evaluation are disjoint.
C1_NoActionUnderShortCircuit == last.inv \cap last.sup = {}

\* C2: in a run, in either mode, no entry is evaluated twice in the walk of
\* one root: the history of evaluations has no two elements with the same
\* root and the same path.
C2_EvaluatedOncePerEntry ==
    \A i \in DOMAIN evals : \A j \in DOMAIN evals :
        i # j => ~(evals[i].root = evals[j].root /\ evals[i].path = evals[j].path)

\* C3: in pre-order mode, after an evaluation of a directory in which the
\* prune action was invoked, nothing beneath that directory is evaluated in
\* the same walk, whatever the value of the expression was.
C3_NothingBeneathPrunedEvaluated ==
    ~options.depth =>
        \A i \in DOMAIN evals : \A j \in DOMAIN evals :
            (i < j /\ evals[i].root = evals[j].root /\ evals[i].pruned)
                => ~Beneath(evals[j].path.comps, evals[i].path.comps)

\* number of levels an evaluated entry is below its root (root = 0)
TrueDepth(e) == Len(e.path.comps) - Len(paths[e.root].comps)

InRange(d) == min_depth <= d /\ d <= max_depth

UnderPruned(c) == \E d \in prune_paths : Beneath(c, d.comps)

EvaluatedIn(r, c) ==
    \E k \in DOMAIN evals : evals[k].root = r /\ evals[k].path.comps = c

OnlyInRangeEvaluated == \A k \in DOMAIN evals : InRange(TrueDepth(evals[k]))

\* C4: in pre-order mode every evaluated entry has mindepth <= depth <=
\* maxdepth, and when the run has completed (nothing deleted) every entry
\* in that range under an existing root and not under a pruned directory
\* has been evaluated.
C4_PreOrderDepthRule ==
    ~options.depth =>
        /\ OnlyInRangeEvaluated
        /\ (pc = "done" /\ fs = Tree) =>
              \A r \in DOMAIN paths : \A c \in Tree :
                  ( /\ exists(Tree, paths[r])
                    /\ IsPrefix(paths[r].comps, c)
                    /\ InRange(Len(c) - Len(paths[r].comps))
                    /\ ~UnderPruned(c) ) => EvaluatedIn(r, c)

\* C5: in post-order mode every evaluated entry has mindepth <= depth <=
\* maxdepth, and when the run has completed (nothing deleted) every entry,
\* file or directory, in that range under an existing root has been
\* evaluated.
C5_PostOrderDepthRule ==
    options.depth =>
        /\ OnlyInRangeEvaluated
        /\ (pc = "done" /\ fs = Tree) =>
              \A r \in DOMAIN paths : \A c \in Tree :
                  ( /\ exists(Tree, paths[r])
                    /\ IsPrefix(paths[r].comps, c)
                    /\ InRange(Len(c) - Len(paths[r].comps)) ) => EvaluatedIn(r, c)

\* C6: for an expression A derivable from OrExpr, the evaluation of the
\* token stream A -o -true returns true and the evaluation of the token
\* stream A -a -false returns false (the latter is tried on the A with no
\* OR outside parentheses).
C6_ShortCircuitIdentities ==
    pc # "eval" =>
        /\ expect.kind = "or_true" => (last.st = "ok" /\ last.val = TRUE)
        /\ expect.kind = "and_false" => (last.st = "ok" /\ last.val = FALSE)

\* C7: for a well-formed expression of pure predicates, NOT, AND (explicit
\* or implicit), OR and parentheses, the evaluation completes without error
\* and returns the value of ordinary boolean evaluation with NOT > AND > OR.
C7_BooleanEvaluation ==
    (pc # "eval" /\ expect.kind = "wf") => (last.st = "ok" /\ last.val = expect.val)

NoActionToken(toks) == \A i \in DOMAIN toks : toks[i] \notin actions

\* the expression as given by the user is true of the entry
UserTrue(path) ==
    LET r == evaluate_expression(user_expr, path, World)
    IN  r.st = "ok" /\ r.val

Count(toks, t) == Cardinality({i \in DOMAIN toks : toks[i] = t})

Malformed(toks) ==
    \/ \E i \in DOMAIN toks : toks[i] = "-bogus"
    \/ \E i \in DOMAIN toks :
          toks[i] \in exec_family /\ \A j \in DOMAIN toks : j > i => toks[j] # ";"
    \/ Count(toks, "(") # Count(toks, ")")

\* C8: when the user's (well-formed) expression has no action token, -print
\* is appended and the set of paths printed is the set of evaluated entries
\* on which the user's expression is true.
C8_ImplicitPrintPrintsMatches ==
    (NoActionToken(user_expr) /\ ~Malformed(user_expr)) =>
        /\ expression_tokens = Append(user_expr, "-print")
        /\ {out[i] : i \in DOMAIN out}
              = {evals[k].path : k \in {n \in DOMAIN evals : UserTrue(evals[n].path)}}

\* C9: a run whose expression has an unrecognised token, an -exec family
\* action without ";" or unbalanced parentheses never completes normally,
\* and when it has exited its status is not 0.
C9_MalformedAborts ==
    Malformed(user_expr) => (pc # "done" /\ (pc = "exit" => exit_status # 0))

PruneSubOrPrint == <<"-name", "sub", "-prune", "-o", "-print">>

Printed == {out[i].comps : i \in DOMAIN out}

\* C10: in pre-order mode with -name sub -prune -o -print and no depth
\* option, dirA/sub and the paths under it are never printed; and a
\* completed run over the root dirA has printed dirA and every entry of
\* dirA outside dirA/sub.
C10_PruneSubPrintsRest ==
    ( /\ ~options.depth /\ user_expr = PruneSubOrPrint
      /\ min_depth = 0 /\ max_depth = Infinity ) =>
        /\ \A c \in Printed : ~IsPrefix(<<"dirA", "sub">>, c)
        /\ (pc = "done" /\ \E r \in DOMAIN paths : paths[r].comps = <<"dirA">>)
              => \A c \in Tree : ~IsPrefix(<<"dirA", "sub">>, c) => c \in Printed

\* C10 witness: such a run has completed after pruning dirA/sub and
\* printing dirA/a.txt
C10_Witness ==
    /\ ~options.depth /\ user_expr = PruneSubOrPrint
    /\ pc = "done"
    /\ min_depth = 0 /\ max_depth = Infinity
    /\ P(<<"dirA", "sub">>) \in prune_paths
    /\ <<"dirA", "a.txt">> \in Printed

(***************************************************************************)
(* Post-order runs.                                                        *)
(***************************************************************************)
\* the paths of the evaluations made in the walk of root r, in order
EvalsOfRoot(r) ==
    LET s == SelectSeq(evals, LAMBDA e : e.root = r)
    IN  [i \in DOMAIN s |-> s[i].path]

PathsUnder(top, names) == [i \in DOMAIN names |-> join(top, names[i])]

\* What the post-order branch evaluates below the directory top of the
\* unchanged tree, as a function of the tree, the start path and the depth
\* options alone: first what it evaluates below each subdirectory (from
\* the k-th on), then the files of top, then the subdirectories of top.
RECURSIVE PostOrderBelow(_, _, _)
PostOrderBelow(top, start, k) ==
    LET dirs  == listdirs(Tree, top)
        level == count_sep(top) - count_sep(start)
    IN  IF k <= Len(dirs)
        THEN PostOrderBelow(join(top, dirs[k]), start, 1)
             \o PostOrderBelow(top, start, k + 1)
        ELSE (IF level + 1 >= min_depth /\ level < max_depth
                THEN PathsUnder(top, listfiles(Tree, top)) ELSE <<>>)
             \o (IF level >= min_depth /\ level < max_depth
                   THEN PathsUnder(top, dirs) ELSE <<>>)

\* the same for the whole walk of root r
PostOrderOfRoot(r) ==
    IF ~exists(Tree, paths[r]) THEN <<>>
    ELSE (IF isdir(Tree, paths[r]) THEN PostOrderBelow(paths[r], paths[r], 1) ELSE <<>>)
         \o (IF min_depth = 0 THEN <<paths[r]>> ELSE <<>>)

\* C11: in post-order mode the Prune Set is never consulted: as long as
\* nothing has been deleted, the entries evaluated in the walk of each root
\* are, in order, a prefix of the sequence that the tree, the root and the
\* depth options determine without any reference to the Prune Set, and the
\* whole of it once the walk of that root is over; so the entries under a
\* directory on which -prune was invoked are evaluated all the same.
C11_PostOrderIgnoresPruneSet ==
    (options.depth /\ fs = Tree) =>
        \A r \in DOMAIN paths :
            /\ IsPrefix(EvalsOfRoot(r), PostOrderOfRoot(r))
            /\ (r < ri \/ pc = "done") => EvalsOfRoot(r) = PostOrderOfRoot(r)

\* C11 witness: a completed post-order run in which -prune was invoked on a
\* directory and an entry beneath that directory was evaluated afterwards
C11_Witness ==
    /\ options.depth /\ fs = Tree /\ pc = "done"
    /\ \E i \in DOMAIN evals : \E j \in DOMAIN evals :
          /\ i < j /\ evals[i].pruned /\ evals[i].path \in prune_paths
          /\ Beneath(evals[j].path.comps, evals[i].path.comps)

SameParent(a, b) ==
    Len(a) = Len(b) /\ SubSeq(a, 1, Len(a) - 1) = SubSeq(b, 1, Len(b) - 1)

\* the walk of root r is over
WalkOver(r) == r < ri \/ pc = "done"

\* C12: in post-order mode, within the walk of one root, no entry beneath a
\* directory is evaluated after that directory; no file of a directory is
\* evaluated after a subdirectory of the same directory; the root path is
\* evaluated only if mindepth is 0 and nothing is evaluated after it in its
\* walk; and with mindepth 0 a finished walk of an existing root has
\* evaluated the root path.
C12_PostOrderChildrenFirst ==
    options.depth =>
        /\ \A i \in DOMAIN evals : \A j \in DOMAIN evals :
              (i < j /\ evals[i].root = evals[j].root) =>
                 /\ ~Beneath(evals[j].path.comps, evals[i].path.comps)
                 /\ ~( /\ SameParent(evals[i].path.comps, evals[j].path.comps)
                       /\ evals[i].path.comps \in TreeDirs
                       /\ evals[j].path.comps \in TreeFiles )
                 /\ evals[i].path.comps # paths[evals[i].root].comps
        /\ \A i \in DOMAIN evals :
              evals[i].path.comps = paths[evals[i].root].comps => min_depth = 0
        /\ \A r \in DOMAIN paths :
              (WalkOver(r) /\ exists(Tree, paths[r]) /\ min_depth = 0)
                 => EvaluatedIn(r, paths[r].comps)

\* C12 witness: a completed post-order run over dirA has evaluated the file
\* dirA/sub/file, then the directory dirA/sub/deep, then dirA/sub, and the
\* root dirA last
C12_Witness ==
    /\ options.depth /\ pc = "done" /\ Len(evals) >= 4
    /\ evals[Len(evals)].path.comps = <<"dirA">>
    /\ \E i \in DOMAIN evals : \E j \in DOMAIN evals : \E k \in DOMAIN evals :
          /\ i < j /\ j < k
          /\ evals[i].path.comps = <<"dirA", "sub", "file">>
          /\ evals[j].path.comps = <<"dirA", "sub", "deep">>
          /\ evals[k].path.comps = <<"dirA", "sub">>

(***************************************************************************)
(* Errors and termination.                                                 *)
(***************************************************************************)
\* the latest evaluation called a -newer, -anewer or -cnewer test whose
\* reference file did not exist
MissingReference == \E t \in last.tst : t.noref

\* C13: whenever -newer, -anewer or -cnewer is actively evaluated on an
\* entry with a reference file that does not exist, that evaluation ends
\* the run at once with exit status 1: no action of the expression is
\* invoked after the test, and from then on no entry is evaluated, nothing
\* is printed, deleted or spawned.
C13_MissingReferenceIsFatal ==
    /\ [](\A t \in last.tst :
            t.noref => /\ last.st = "fatal" /\ pc = "exit" /\ exit_status = 1
                       /\ \A q \in last.inv : q < t.at)
    /\ [][MissingReference =>
              (evals' = evals /\ out' = out /\ fs' = fs /\ cmds' = cmds)]_vars

\* C13 witness: a run that evaluated entries, then reached -newer with a
\* missing reference file on a later entry and exited with status 1
C13_Witness ==
    /\ MissingReference /\ last.st = "fatal"
    /\ pc = "exit" /\ exit_status = 1
    /\ Len(evals) >= 2

\* the tests of the model that ask the filesystem about the entry
metadata_tests == {"-type", "-size", "-links", "-inum", "-empty"} \cup newer_family

\* C14: whenever a metadata-based test (-type, -size, -links, -inum, -empty,
\* and -newer, -anewer, -cnewer with a reference file that exists) is
\* called on an entry that no longer exists, the call returns false and
\* the evaluation goes on.
C14_VanishedEntryIsNonMatch ==
    \A t \in last.tst :
        (t.token \in metadata_tests /\ t.gone /\ ~t.noref)
            => (t.st = "ok" /\ t.val = FALSE)

\* C15: every action other than -quit that is invoked returns (with the
\* value true, the only value the evaluator gives an action), so that the
\* evaluation goes on: this includes a delete that fails and a command
\* that cannot be started.
C15_ActionsAlwaysReturn ==
    \A q \in last.inv : expression_tokens[q + 1] # "-quit" => q \in last.ret

\* the latest evaluation invoked -quit
QuitInvoked == \E q \in last.inv : expression_tokens[q + 1] = "-quit"

\* C16: a -quit is invoked only at a token position outside the operands
\* parsed in suppressed mode, so a quit in a suppressed operand does not
\* end the run; and once -quit has been invoked, no action at a later token
\* position is invoked for that entry, the run exits with status 0, and
\* from then on no entry of any root is evaluated and nothing is printed,
\* deleted or spawned.
C16_QuitEndsTheRun ==
    /\ [](\A q \in last.inv :
            expression_tokens[q + 1] = "-quit" =>
                /\ q \notin last.sup
                /\ \A a \in last.inv : a <= q
                /\ last.st = "quit" /\ pc = "exit" /\ exit_status = 0)
    /\ [][QuitInvoked =>
              (evals' = evals /\ out' = out /\ fs' = fs /\ cmds' = cmds)]_vars

\* number of roots, among the first n, that did not exist at the start
MissingAmong(n) == Cardinality({r \in 1 .. n : ~exists(Tree, paths[r])})

\* C17: the evaluations of a run are in the order of the roots; a root
\* that does not exist is reported (one message) and passed over, and only
\* an evaluation that fails ends a run with a status other than 0: a run
\* that has not been ended by an evaluation completes with status 0, and
\* (with mindepth 0 and nothing deleted) has evaluated every root that is
\* an existing directory.
C17_RootsInOrder ==
    /\ \A i \in DOMAIN evals : \A j \in DOMAIN evals :
          i < j => evals[i].root <= evals[j].root
    /\ \A k \in DOMAIN evals : exists(Tree, paths[evals[k].root])
    /\ errs >= MissingAmong(IF pc = "done" THEN Len(paths) ELSE ri - 1)
    /\ pc = "exit" => last.st \in {"error", "crash", "fatal", "quit"}
    /\ exit_status \notin {-1, 0} => last.st \in {"error", "crash", "fatal"}
    /\ pc = "done" =>
          /\ exit_status = 0
          /\ (fs = Tree /\ min_depth = 0) =>
                \A r \in DOMAIN paths :
                    isdir(Tree, paths[r]) => EvaluatedIn(r, paths[r].comps)

\* C17 witness: a completed run over a missing root followed by an existing
\* one: the missing root was reported, the existing one was walked, and the
\* status is 0
C17_Witness ==
    /\ pc = "done" /\ exit_status = 0
    /\ Len(paths) = 2 /\ ~exists(Tree, paths[1])
    /\ errs >= 1
    /\ \E k \in DOMAIN evals : evals[k].root = 2

\* the size in bytes of one unit of a -size argument
UnitSize(unit) ==
    CASE unit = <<>>    -> 512
      [] unit = <<"c">> -> 1
      [] unit = <<"w">> -> 2
      [] unit = <<"k">> -> 1024
      [] unit = <<"M">> -> 1024 * 1024
      [] unit = <<"G">> -> 1024 * 1024 * 1024

\* ceil(a / b)
CeilDiv(a, b) == IF a % b = 0 THEN a \div b ELSE (a \div b) + 1

\* the signed-N rule: no sign equal, + strictly greater, - strictly less
SignedRule(val, sign, n) ==
    CASE sign = <<"+">> -> val > n
      [] sign = <<"-">> -> val < n
      [] OTHER          -> val = n

\* C18: for every file size and every argument [+|-]N[unit], -size returns
\* without error the result of the signed-N rule applied to
\* ceil(size / unit size), which is also what _compare_num, the rule
\* shared with -links and -inum, gives for that number of blocks and [+|-]N.
C18_SizeIsSignedRuleOnCeiling ==
    pc = "sized" =>
        LET blocks == CeilDiv(expect.file_size, UnitSize(expect.unit))
            shared == compare_num(blocks, expect.sign \o expect.number)
        IN  /\ last.st = "ok"
            /\ last.val = SignedRule(blocks, expect.sign, digits_value(expect.number))
            /\ shared.st = "ok" /\ last.val = shared.val

\* C18 witness: a file of 513 bytes has been found to satisfy -size 2
C18_Witness ==
    /\ pc = "sized"
    /\ expect.file_size = 513 /\ expect.size_str = <<"2">>
    /\ last.st = "ok" /\ last.val = TRUE

\* OR chains of two or three operands, at top level and in parentheses
OrChains == {x.t : x \in Or2 \cup Or3 \cup Prim2}

\* C19: the evaluation of an OR chain, at top level or in parentheses,
\* parses every operand of the chain (the cursor ends after the last token:
\* for a parenthesised chain it stood at the closing parenthesis, which was
\* then consumed), completes without error, and returns true if and only
\* if an operand is true.
C19_OrChainParsedToItsEnd ==
    (pc # "eval" /\ expect.kind = "wf" /\ user_expr \in OrChains) =>
        /\ last.st = "ok"
        /\ pos = Len(user_expr)
        /\ last.val = expect.val

\* C20: a parse function called at any cursor position of any token stream
\* never leaves the cursor before that position, in either mode and however
\* the call ends; and when _parse_and_expr, _parse_not_expr or
\* _parse_primary returns in both modes, it has advanced the cursor by the
\* same number of tokens in suppressed mode as in active mode.
C20_SameAdvanceInBothModes ==
    pc = "parsed" =>
        /\ probe.active.pos >= expect.at
        /\ probe.suppressed.pos >= expect.at
        /\ (probe.active.st = "ok" /\ probe.suppressed.st = "ok")
              => probe.active.pos = probe.suppressed.pos

\* C20 witness: _parse_and_expr called at the start of a stream of several
\* operands, one of them negated, has returned in both modes with the
\* cursor advanced past all of them, the active call having invoked an
\* action
C20_Witness ==
    /\ pc = "parsed" /\ expect.fn = "and_expr" /\ expect.at = 0
    /\ user_expr = <<"!", "-exec", "nocmd", ";", "-print", "-quit">>
    /\ probe.suppressed.st = "ok" /\ probe.suppressed.pos = Len(user_expr)
    /\ probe.active.pos = Len(user_expr)
    /\ last.inv # {}

\* the positions of _walk at which an os.walk triple is being processed
InTriple == pc \in {"pre_root", "pre_files", "pre_dirs", "post_files", "post_dirs"}

\* number of levels the directory of the current triple is below the root
LevelsBelowRoot == Len(Frame.top.comps) - Len(start_path.comps)

\* C21: for every root path as given on the command line, with or without
\* a trailing separator, the depth _walk computes for the directory of the
\* triple it is processing is the number of levels that directory is below
\* the root (the root itself 0).
C21_DepthIsLevelsBelowRoot == InTriple => current_level = LevelsBelowRoot

\* the latest evaluation invoked -prune at a position outside every
\* short-circuited operand
PruneInvokedActively ==
    \E q \in last.inv \ last.sup : expression_tokens[q + 1] = "-prune"

\* C22: the Prune Set is empty at the start of a run, no step removes a
\* path from it, and a step adds a path to it only as the entry being
\* evaluated, which was a directory, in an evaluation that invoked -prune
\* outside every short-circuited operand.
C22_PruneSetOnlyGrows ==
    /\ prune_paths = {}
    /\ [][ /\ prune_paths \subseteq prune_paths'
           /\ \A p \in prune_paths' \ prune_paths :
                 /\ p = last'.path
                 /\ isdir(fs, p)
                 /\ PruneInvokedActively' ]_vars

====
